---------------------------- MODULE Spec2Model ----------------------------
(***************************************************************************)
(* A model of newformatter.py: the upload / process / send_file handlers   *)
(* of the Excel formatter, the text normaliser transform_text and the      *)
(* merge, sort, serial-number and layout steps of process_excel.           *)
(*                                                                         *)
(* Python strings are sequences of one-character strings; cell values are  *)
(* records tagged "none", "str" or "int".  A worksheet is the sparse map   *)
(* of its cells (openpyxl's Worksheet._cells) with its column widths and   *)
(* merged range.                                                           *)
(***************************************************************************)
EXTENDS Integers, Sequences, FiniteSets, TLC

VARIABLES
    fs,                \* UPLOAD_FOLDER: file name -> stored content
    pc,                \* per run: where the run is in upload -> process -> send_file
    page_headers,      \* per run: headers rendered on the selection page
    files_json,        \* per run: the hidden "files" form field (saved paths)
    flashed,           \* per run: the flashed message, or "" if none
    selected_headers,  \* per run: request.form.getlist("selected")
    desired_filename,  \* per run: the title / download name after defaulting
    px,                \* per run: what process_excel computed (its locals)
    artifact,          \* per run: the content send_file returned
    uploaded,          \* per run (history): the list of files the run posted
    env,               \* what the users can submit: their files and titles
    tt_in,             \* transform_text: the argument
    tt_out             \* transform_text: the returned value, or Unset

vars == <<fs, pc, page_headers, files_json, flashed, selected_headers,
          desired_filename, px, artifact, uploaded, env, tt_in, tt_out>>

runVars == <<fs, pc, page_headers, files_json, flashed, selected_headers,
             desired_filename, px, artifact, uploaded, env>>

---------------------------------------------------------------------------
(* Characters and Python's str methods.                                    *)

\* The characters in use, in code point order.
CharOrder ==
    <<" ", "(", ")", "-", ".", "0", "1", "2", "3", "4", "5", "6", "7", "8", "9",
      "A", "B", "C", "D", "E", "F", "G", "H", "I", "J", "K", "L", "M", "N", "O",
      "P", "Q", "R", "S", "T", "U", "V", "W", "X", "Y", "Z", "_",
      "a", "b", "c", "d", "e", "f", "g", "h", "i", "j", "k", "l", "m", "n", "o",
      "p", "q", "r", "s", "t", "u", "v", "w", "x", "y", "z">>

Chars == {CharOrder[i] : i \in 1..Len(CharOrder)}

\* Rank of a character in code point order.
Ord[c \in Chars] == CHOOSE i \in 1..Len(CharOrder) : CharOrder[i] = c

IsUpper(c) == Ord[c] >= Ord["A"] /\ Ord[c] <= Ord["Z"]
IsLower(c) == Ord[c] >= Ord["a"] /\ Ord[c] <= Ord["z"]
IsCased(c) == IsUpper(c) \/ IsLower(c)
IsSpace(c) == c = " "

ToLower(c) == IF IsUpper(c) THEN CharOrder[Ord[c] + (Ord["a"] - Ord["A"])] ELSE c
ToUpper(c) == IF IsLower(c) THEN CharOrder[Ord[c] - (Ord["a"] - Ord["A"])] ELSE c

\* str.lower() and str.upper()
Lower(s) == [i \in 1..Len(s) |-> ToLower(s[i])]
Upper(s) == [i \in 1..Len(s) |-> ToUpper(s[i])]

\* str.title(): a cased character is upper-cased when the character before it
\* is not cased (or there is none), lower-cased otherwise.
Title(s) ==
    [i \in 1..Len(s) |->
        IF i > 1 /\ IsCased(s[i - 1]) THEN ToLower(s[i]) ELSE ToUpper(s[i])]

\* str.strip()
RECURSIVE LStrip(_)
LStrip(s) == IF s # <<>> /\ IsSpace(Head(s)) THEN LStrip(Tail(s)) ELSE s

RECURSIVE RStrip(_)
RStrip(s) ==
    IF s # <<>> /\ IsSpace(s[Len(s)]) THEN RStrip(SubSeq(s, 1, Len(s) - 1)) ELSE s

Strip(s) == RStrip(LStrip(s))

\* s < t for Python strings: lexicographic by code point.
RECURSIVE StrLess(_, _)
StrLess(s, t) ==
    IF t = <<>> THEN FALSE
    ELSE IF s = <<>> THEN TRUE
    ELSE IF Head(s) = Head(t) THEN StrLess(Tail(s), Tail(t))
    ELSE Ord[Head(s)] < Ord[Head(t)]

\* str(n) for an int n.
RECURSIVE NatToStr(_)
NatToStr(n) ==
    IF n < 10 THEN <<CharOrder[Ord["0"] + n]>>
    ELSE NatToStr(n \div 10) \o <<CharOrder[Ord["0"] + (n % 10)]>>

IntToStr(n) == IF n < 0 THEN <<"-">> \o NatToStr(0 - n) ELSE NatToStr(n)

---------------------------------------------------------------------------
(* Cell values.                                                            *)

VNone == [t |-> "none"]
VStr(s) == [t |-> "str", s |-> s]
VInt(n) == [t |-> "int", n |-> n]

IsStr(v) == v.t = "str"

\* bool(v): None, 0 and "" are falsy.
Truthy(v) ==
    CASE v.t = "none" -> FALSE
      [] v.t = "int" -> v.n # 0
      [] v.t = "str" -> v.s # <<>>

\* str(v)
PyStr(v) ==
    CASE v.t = "none" -> <<"N", "o", "n", "e">>
      [] v.t = "int" -> IntToStr(v.n)
      [] v.t = "str" -> v.s

---------------------------------------------------------------------------
(* transform_text                                                          *)

BCOM_IN == <<"B", "a", "c", "h", "e", "l", "o", "r", "s", " ", "O", "f", " ", "C", "o", "m", "m", "e", "r", "c", "e", " ", "-", " ", "C", "o", "m", "m", "e", "r", "c", "e">>
BCOM_OUT == <<"B", ".", "C", "o", "m", ".", " ", "(", "H", "o", "n", "s", ".", ")">>
BA_IN == <<"B", "a", "c", "h", "e", "l", "o", "r", "s", " ", "O", "f", " ", "A", "r", "t", "s", " ", "-", " ", "H", "u", "m", "a", "n", "i", "t", "i", "e", "s">>
BA_OUT == <<"B", ".", "A", ".", " ", "H", "o", "n", "s", ".", " ", "E", "c", "o", "n", "o", "m", "i", "c", "s">>
CGPA_IN == <<"C", "g", "p", "a">>
CGPA_OUT == <<"C", "G", "P", "A">>
NA_IN == <<"N", "a">>
NA_OUT == <<"N", "A">>

\* A mutant of transform_text: the "Cgpa" and "Na" branches return each
\* other's replacement.
transform_text_swapped(text) ==
    LET new_text == Title(text) IN
    IF new_text = BCOM_IN THEN BCOM_OUT
    ELSE IF new_text = BA_IN THEN BA_OUT
    ELSE IF new_text = CGPA_IN THEN NA_OUT
    ELSE IF new_text = NA_IN THEN CGPA_OUT
    ELSE new_text

transform_text(text) ==
    LET new_text == Title(text) IN
    IF new_text = BCOM_IN THEN BCOM_OUT
    ELSE IF new_text = BA_IN THEN BA_OUT
    ELSE IF new_text = CGPA_IN THEN CGPA_OUT
    ELSE IF new_text = NA_IN THEN NA_OUT
    ELSE new_text

---------------------------------------------------------------------------
(* Sequences and dicts.                                                    *)

Range(s) == {s[i] : i \in 1..Len(s)}

\* x in lst
Contains(lst, x) == \E i \in 1..Len(lst) : lst[i] = x

\* d[k] = v on a dict (a function): the key is added or its value replaced.
DictSet(d, k, v) == [x \in (DOMAIN d) \cup {k} |-> IF x = k THEN v ELSE d[x]]

EmptyDict == [x \in {} |-> 0]

SetMax(S) == CHOOSE m \in S : \A x \in S : x <= m

---------------------------------------------------------------------------
(* upload: header unification.                                             *)

SNO_ALIAS == <<"s", ".", " ", "n", "o", ".">>
SERIAL_ALIAS == <<"s", "e", "r", "i", "a", "l", " ", "n", "o">>

\* isinstance(h, str) and h.strip().lower() in ["s. no.", "serial no"]
IsSerialHeader(h) ==
    IsStr(h) /\ Lower(Strip(h.s)) \in {SNO_ALIAS, SERIAL_ALIAS}

\* [cell.value for cell in sheet[1] if cell.value is not None]
SheetHeaders(table) == SelectSeq(table.header, LAMBDA v : v # VNone)

\* A mutant of AddHeaders: the membership test is missing.
RECURSIVE AddHeadersNoDedup(_, _)
AddHeadersNoDedup(headers, combined_headers) ==
    IF headers = <<>> THEN combined_headers
    ELSE LET h == Head(headers) IN
         IF IsSerialHeader(h)
         THEN AddHeadersNoDedup(Tail(headers), combined_headers)
         ELSE AddHeadersNoDedup(Tail(headers), Append(combined_headers, h))

\* The inner loop of upload over one file's headers.
RECURSIVE AddHeaders(_, _)
AddHeaders(headers, combined_headers) ==
    IF headers = <<>> THEN combined_headers
    ELSE LET h == Head(headers) IN
         IF IsSerialHeader(h) THEN AddHeaders(Tail(headers), combined_headers)
         ELSE IF ~Contains(combined_headers, h)
         THEN AddHeaders(Tail(headers), Append(combined_headers, h))
         ELSE AddHeaders(Tail(headers), combined_headers)

\* The loop of upload over the uploaded files: each named file is saved to
\* the upload folder under its own name, then read back for its headers.
\* acc = [fs, combined_headers, saved_paths]
RECURSIVE UploadLoop(_, _)
UploadLoop(files, acc) ==
    IF files = <<>> THEN acc
    ELSE LET file == Head(files) IN
         IF file.filename = "" THEN UploadLoop(Tail(files), acc)
         ELSE LET fs1 == [acc.fs EXCEPT ![file.filename] = file.table]
                  wb == fs1[file.filename]
              IN  UploadLoop(Tail(files),
                     [fs |-> fs1,
                      combined_headers |->
                          AddHeaders(SheetHeaders(wb), acc.combined_headers),
                      saved_paths |-> Append(acc.saved_paths, file.filename)])

---------------------------------------------------------------------------
(* The worksheet (openpyxl): a sparse map of cells, the column widths and  *)
(* the merged range.  Fonts, fills, borders, row heights, the gridline     *)
(* flag and the print area are not modelled.                               *)

NewSheet == [cells |-> EmptyDict, widths |-> EmptyDict, merged |-> {}]

\* Worksheet.max_row / max_column: the largest index holding a cell, 1 for an
\* empty sheet.
MaxRow(ws) ==
    IF DOMAIN ws.cells = {} THEN 1 ELSE SetMax({rc[1] : rc \in DOMAIN ws.cells})
MaxCol(ws) ==
    IF DOMAIN ws.cells = {} THEN 1 ELSE SetMax({rc[2] : rc \in DOMAIN ws.cells})

\* The value of the cell at (r, c); a cell that does not exist reads None.
CellValue(ws, r, c) ==
    IF <<r, c>> \in DOMAIN ws.cells THEN ws.cells[<<r, c>>] ELSE VNone

\* ws.cell(row=r, column=c, value=v): the cell is created if it is missing and
\* its value is set unless v is None.
SetCell(ws, r, c, v) ==
    [ws EXCEPT !.cells =
        DictSet(ws.cells, <<r, c>>, IF v = VNone THEN CellValue(ws, r, c) ELSE v)]

\* ws.cell(...) for a run of columns c0, c0 + 1, ... of row r, one per value.
RECURSIVE SetRow(_, _, _, _)
SetRow(ws, r, c0, values) ==
    IF values = <<>> THEN ws
    ELSE SetRow(SetCell(ws, r, c0, Head(values)), r, c0 + 1, Tail(values))

\* ws.insert_rows(idx, amount): the cells of row idx and below move down.
InsertRows(ws, idx, amount) ==
    LET old == ws.cells
        moved == {IF rc[1] >= idx THEN <<rc[1] + amount, rc[2]>> ELSE rc :
                    rc \in DOMAIN old}
    IN  [ws EXCEPT !.cells =
            [rc \in moved |->
                IF rc[1] >= idx + amount THEN old[<<rc[1] - amount, rc[2]>>]
                ELSE old[rc]]]

\* ws.insert_cols(idx): the cells of column idx and right of it move right by
\* one; the column dimensions (widths) stay where they are.
InsertCols(ws, idx) ==
    LET old == ws.cells
        moved == {IF rc[2] >= idx THEN <<rc[1], rc[2] + 1>> ELSE rc :
                    rc \in DOMAIN old}
    IN  [ws EXCEPT !.cells =
            [rc \in moved |->
                IF rc[2] >= idx + 1 THEN old[<<rc[1], rc[2] - 1>>] ELSE old[rc]]]

\* ws.append(values): a new row below the last one, a cell for every value
\* (None included).
AppendRow(ws, values) ==
    LET r == MaxRow(ws) + 1 IN
    [ws EXCEPT !.cells =
        [rc \in (DOMAIN ws.cells) \cup {<<r, c>> : c \in 1..Len(values)} |->
            IF rc[1] = r THEN values[rc[2]] ELSE ws.cells[rc]]]

\* ws.column_dimensions[get_column_letter(c)].width = w
SetWidth(ws, c, w) == [ws EXCEPT !.widths = DictSet(ws.widths, c, w)]

\* ws.merge_cells(start_row, start_column, end_row, end_column): the range is
\* recorded and every cell of it but the top-left one becomes a MergedCell,
\* which holds no value.
MergeCells(ws, r1, c1, r2, c2) ==
    LET rng == {<<r, c>> : r \in r1..r2, c \in c1..c2} IN
    [ws EXCEPT
        !.merged = ws.merged \cup {[r1 |-> r1, c1 |-> c1, r2 |-> r2, c2 |-> c2]},
        !.cells = [rc \in (DOMAIN ws.cells) \cup rng |->
                      IF rc \in rng
                      THEN (IF rc = <<r1, c1>> THEN CellValue(ws, r1, c1) ELSE VNone)
                      ELSE ws.cells[rc]]]

---------------------------------------------------------------------------
(* process_excel: merge, transform, sort.                                  *)
(* A merged row is [d, src, idx]: d is the code's row_dict; src and idx    *)
(* (history, never read by the code) say which file of file_paths and      *)
(* which data row of it the row came from.                                 *)

\* file_header_map over the cells of sheet[1], left to right from column c.
RECURSIVE FileHeaderMap(_, _, _)
FileHeaderMap(header, c, m) ==
    IF c > Len(header) THEN m
    ELSE LET h == header[c] IN
         IF h = VNone \/ IsSerialHeader(h) THEN FileHeaderMap(header, c + 1, m)
         ELSE FileHeaderMap(header, c + 1, DictSet(m, h, c))

\* A mutant of RowDict: a header the file lacks reads the cell at the header's
\* position in combined_headers instead of None.
RowDictByPosition(row, combined_headers, file_header_map) ==
    [header \in Range(combined_headers) |->
        IF header \in DOMAIN file_header_map
        THEN row[file_header_map[header]]
        ELSE LET k == CHOOSE i \in 1..Len(combined_headers) :
                          combined_headers[i] = header
             IN  IF k <= Len(row) THEN row[k] ELSE VNone]

\* row_dict of one data row.
RowDict(row, combined_headers, file_header_map) ==
    [header \in Range(combined_headers) |->
        IF header \in DOMAIN file_header_map
        THEN row[file_header_map[header]]
        ELSE VNone]

\* The rows one file adds to combined_data.
FileRows(table, combined_headers, src) ==
    LET file_header_map == FileHeaderMap(table.header, 1, EmptyDict) IN
    [k \in 1..Len(table.rows) |->
        [d |-> RowDict(table.rows[k], combined_headers, file_header_map),
         src |-> src, idx |-> k]]

\* combined_data after the loop over file_paths, from file number src on.
RECURSIVE CombinedData(_, _, _, _)
CombinedData(fsys, file_paths, combined_headers, src) ==
    IF src > Len(file_paths) THEN <<>>
    ELSE FileRows(fsys[file_paths[src]], combined_headers, src)
         \o CombinedData(fsys, file_paths, combined_headers, src + 1)

ROLL_NO == <<"r", "o", "l", "l", " ", "n", "o">>
ROLL_NUMBER == <<"r", "o", "l", "l", " ", "n", "u", "m", "b", "e", "r">>
ROLL_NO_DOT == <<"r", "o", "l", "l", " ", "n", "o", ".">>

\* The new value of row[header] in the transform loop.
TransformCell(header, val) ==
    IF IsStr(val)
    THEN IF Lower(Strip(header.s)) \in {ROLL_NO, ROLL_NUMBER, ROLL_NO_DOT}
         THEN VStr(Upper(transform_text(val.s)))
         ELSE VStr(transform_text(val.s))
    ELSE val

\* combined_data after the transform loop.
TransformRows(combined_data, combined_headers) ==
    [k \in 1..Len(combined_data) |->
        [combined_data[k] EXCEPT
            !.d = [header \in DOMAIN combined_data[k].d |->
                      TransformCell(header, combined_data[k].d[header])]]]

NAME == <<"n", "a", "m", "e">>

\* isinstance(h, str) and h.strip().lower() == "name"
IsNameHeader(h) == IsStr(h) /\ Lower(Strip(h.s)) = NAME

\* next(h for h in combined_headers if ...): the first name header.
NameHeader(combined_headers) ==
    combined_headers[CHOOSE i \in 1..Len(combined_headers) :
        /\ IsNameHeader(combined_headers[i])
        /\ \A j \in 1..(i - 1) : ~IsNameHeader(combined_headers[j])]

\* The sort key: str(r.get(name_header) or "").lower()
SortKey(r, name_header) ==
    LET v == r.d[name_header] IN
    Lower(PyStr(IF Truthy(v) THEN v ELSE VStr(<<>>)))

\* list.sort is stable: a row goes after every row whose key is not greater.
RECURSIVE InsertByKey(_, _, _)
InsertByKey(sorted, r, name_header) ==
    IF sorted = <<>> THEN <<r>>
    ELSE IF StrLess(SortKey(r, name_header), SortKey(Head(sorted), name_header))
    THEN <<r>> \o sorted
    ELSE <<Head(sorted)>> \o InsertByKey(Tail(sorted), r, name_header)

RECURSIVE SortByKey(_, _, _)
SortByKey(rows, sorted, name_header) ==
    IF rows = <<>> THEN sorted
    ELSE SortByKey(Tail(rows), InsertByKey(sorted, Head(rows), name_header),
                   name_header)

\* combined_data after the sort step.
SortRows(combined_data, combined_headers) ==
    IF \E i \in 1..Len(combined_headers) : IsNameHeader(combined_headers[i])
    THEN SortByKey(combined_data, <<>>, NameHeader(combined_headers))
    ELSE combined_data

---------------------------------------------------------------------------
(* process_excel: the output workbook.                                     *)

SNO_LABEL == <<"S", ".", " ", "N", "o", ".">>
PROCESSED_XLSX == "processed.xlsx"

HEADER_WIDTH == 20
MARGIN_WIDTH == 2
PADDING == 2

\* new_order: "S. No." in column 1, then each header in the next column.
RECURSIVE NewOrder(_, _, _)
NewOrder(combined_headers, col_num, new_order) ==
    IF combined_headers = <<>> THEN new_order
    ELSE NewOrder(Tail(combined_headers), col_num + 1,
                  DictSet(new_order, Head(combined_headers), col_num))

\* The header row: each key of new_order written to its column of row 1.
WriteHeaderRow(ws, new_order) ==
    [ws EXCEPT !.cells =
        [rc \in (DOMAIN ws.cells) \cup {<<1, new_order[h]>> : h \in DOMAIN new_order}
            |-> IF \E h \in DOMAIN new_order : rc = <<1, new_order[h]>>
                THEN CHOOSE h \in DOMAIN new_order : rc = <<1, new_order[h]>>
                ELSE ws.cells[rc]]]

\* row_list of one merged row: None, then the row's value for every header.
RowList(row_dict, combined_headers) ==
    <<VNone>> \o [j \in 1..Len(combined_headers) |-> row_dict[combined_headers[j]]]

\* The data rows written from row 2 on.
RECURSIVE WriteDataRows(_, _, _, _)
WriteDataRows(ws, combined_data, combined_headers, i) ==
    IF combined_data = <<>> THEN ws
    ELSE WriteDataRows(
            SetRow(ws, i, 1, RowList(Head(combined_data).d, combined_headers)),
            Tail(combined_data), combined_headers, i + 1)

\* A mutant of SerialValue: the row index is written as it is.
SerialValueOffByOne(i) == VInt(i)

\* The serial number written to sheet row i.
SerialValue(i) == VInt(i - 1)

\* The serial numbers of rows i .. data_max_row, in column 1.
RECURSIVE FillSerials(_, _, _)
FillSerials(ws, i, data_max_row) ==
    IF i > data_max_row THEN ws
    ELSE FillSerials(SetCell(ws, i, 1, SerialValue(i)), i + 1, data_max_row)

\* The header formatting loop: width 20 on every column of new_order.
HeaderWidths(ws, new_order) ==
    [ws EXCEPT !.widths =
        [c \in (DOMAIN ws.widths) \cup {new_order[h] : h \in DOMAIN new_order} |->
            IF \E h \in DOMAIN new_order : new_order[h] = c
            THEN HEADER_WIDTH ELSE ws.widths[c]]]

\* The formatting loops over rows r .. r2, columns 1 .. data_max_col: they
\* touch every cell of the range, which creates the missing ones.
TouchCells(ws, r, r2, data_max_col) ==
    [ws EXCEPT !.cells =
        [rc \in (DOMAIN ws.cells) \cup {<<i, c>> : i \in r..r2, c \in 1..data_max_col}
            |-> CellValue(ws, rc[1], rc[2])]]

\* A mutant of RightMarginIndex: the right margin is inserted one column
\* early.
RightMarginIndexEarly(data_max_col) == data_max_col + 1

\* right_margin_index
RightMarginIndex(data_max_col) == data_max_col + 2

\* The sheet when the header row, the data rows and the serial numbers are
\* written.
DataSheet(combined_data, combined_headers, new_order) ==
    LET ws1 == WriteHeaderRow(NewSheet, new_order)
        ws2 == WriteDataRows(ws1, combined_data, combined_headers, 2)
    IN  FillSerials(ws2, 2, Len(combined_data) + 1)

\* The sheet after formatting, the top margin and title rows, the left, right
\* and bottom margins, the title merge and the title text.  The deletion of
\* excess rows and columns that follows finds none: max_row and max_column do
\* not change between the two reads.
LayoutSheet(ws0, new_order, data_max_row, data_max_col, title) ==
    LET ws1 == HeaderWidths(ws0, new_order)
        ws2 == TouchCells(ws1, 2, data_max_row, data_max_col)
        ws3 == InsertRows(ws2, 1, 2)
        ws4 == TouchCells(ws3, 2, 2, data_max_col)
        ws5 == SetWidth(InsertCols(ws4, 1), 1, MARGIN_WIDTH)
        right_margin_index == RightMarginIndex(data_max_col)
        ws6 == SetWidth(InsertCols(ws5, right_margin_index),
                        right_margin_index, MARGIN_WIDTH)
        ws7 == AppendRow(ws6, [c \in 1..MaxCol(ws6) |-> VNone])
        used_last_col == MaxCol(ws7)
        ws8 == MergeCells(ws7, 2, 2, 2, used_last_col)
    IN  SetCell(ws8, 2, 2, title)

\* max_length of one column: the longest str(cell.value) over the truthy
\* cells of rows 1 .. used_last_row.
MaxLength(ws, col, used_last_row) ==
    SetMax({0} \cup {Len(PyStr(CellValue(ws, r, col))) :
                       r \in {x \in 1..used_last_row : Truthy(CellValue(ws, x, col))}})

\* A mutant of FitWidth: the last column gets twice the padding.
FitWidthExtraLast(max_length, col, used_last_col) ==
    IF col = used_last_col THEN max_length + 2 * PADDING ELSE max_length + PADDING

\* The width auto-fit gives a column.
FitWidth(max_length, col, used_last_col) == max_length + PADDING

\* The auto-fit loop over columns col .. used_last_col.
RECURSIVE AutoFit(_, _, _, _)
AutoFit(ws, col, used_last_col, used_last_row) ==
    IF col > used_last_col THEN ws
    ELSE AutoFit(
            SetWidth(ws, col,
                     FitWidth(MaxLength(ws, col, used_last_row), col, used_last_col)),
            col + 1, used_last_col, used_last_row)

\* process_excel up to new_wb.save: its locals and the finished sheet
\* (title is the desired_filename argument, a str value).
process_excel(fsys, file_paths, combined_headers, title) ==
    LET merged == CombinedData(fsys, file_paths, combined_headers, 1)
        transformed == TransformRows(merged, combined_headers)
        sorted == SortRows(transformed, combined_headers)
        new_order == NewOrder(combined_headers, 2,
                              DictSet(EmptyDict, VStr(SNO_LABEL), 1))
        data_max_row == Len(sorted) + 1
        data_max_col == Cardinality(DOMAIN new_order)
        ws0 == DataSheet(sorted, combined_headers, new_order)
        ws1 == LayoutSheet(ws0, new_order, data_max_row, data_max_col, title)
        used_last_row == MaxRow(ws1)
        used_last_col == MaxCol(ws1)
    IN  [merged |-> merged,
         transformed |-> transformed,
         combined_data |-> sorted,
         data_max_row |-> data_max_row,
         data_max_col |-> data_max_col,
         used_last_row |-> used_last_row,
         used_last_col |-> used_last_col,
         sheet |-> AutoFit(ws1, 2, used_last_col, used_last_row)]

---------------------------------------------------------------------------
(* The environment: the files and form values the users submit.            *)

\* Bounds of the model.
MaxFiles == 2
MaxTextLen == 4

S_NAME == <<"N", "a", "m", "e">>
S_ROLL == <<"R", "o", "l", "l", " ", "N", "o">>
S_CGPA == <<"C", "g", "p", "a">>
S_COURSE == <<"C", "o", "u", "r", "s", "e">>
S_SERIAL == <<" ", "s", "e", "r", "i", "a", "l", " ", "N", "O", " ">>
PROCESSED_FILE == <<"P", "r", "o", "c", "e", "s", "s", "e", "d", "_", "F", "i", "l", "e">>

\* Two sources with the columns Name, Roll No, Cgpa / Name, Cgpa in different
\* positions; the second has its own serial column, an unnamed column and a
\* course column.
TableA ==
    [header |-> <<VStr(S_NAME), VStr(S_ROLL), VStr(S_CGPA)>>,
     rows |-> << <<VStr(<<"b", "e", "t", "a">>), VStr(<<"r", "2">>), VInt(8)>>,
                 <<VStr(<<"A", "l", "p", "h", "a">>), VStr(<<"r", "1">>), VInt(9)>> >>]

TableB ==
    [header |-> <<VStr(SNO_LABEL), VStr(S_CGPA), VNone, VStr(S_NAME), VStr(S_COURSE)>>,
     rows |-> << <<VInt(1), VInt(7), VStr(<<"x", "1">>),
                   VStr(<<"A", "L", "P", "H", "A">>), VStr(Lower(BCOM_IN))>>,
                 <<VInt(2), VInt(0), VStr(<<"x", "2">>),
                   VStr(<<"b", "e", "t", "a">>), VStr(<<"n", "a">>)>> >>]

\* A source with serial columns only.
TableC ==
    [header |-> <<VStr(S_SERIAL), VStr(SNO_ALIAS)>>,
     rows |-> << <<VInt(1), VInt(1)>> >>]

\* A source whose Name column holds numbers.
TableD ==
    [header |-> <<VStr(S_NAME), VStr(S_CGPA)>>,
     rows |-> << <<VInt(0), VStr(<<"n", "a">>)>>,
                 <<VInt(0 - 1), VInt(10)>> >>]

\* A source with a header row and no data rows.
TableE == [header |-> <<VStr(S_CGPA)>>, rows |-> <<>>]

\* One user's files; the last is the empty file part a browser submits when
\* no file is chosen.
FilePool ==
    {[filename |-> "a.xlsx", table |-> TableA],
     [filename |-> "b.xlsx", table |-> TableB],
     [filename |-> "c.xlsx", table |-> TableC],
     [filename |-> "d.xlsx", table |-> TableD],
     [filename |-> "e.xlsx", table |-> TableE],
     [filename |-> "", table |-> TableE]}

\* The desired_filename form field: left empty, or a short name.
TitlePool == {<<>>, <<"Q", "1">>}

\* Two users whose files have the same name and different contents.
SharedPool ==
    {[filename |-> "data.xlsx", table |-> TableA],
     [filename |-> "data.xlsx", table |-> TableE]}

\* Every list of at most n files of a pool.
FileLists(pool, n) == UNION {[1..k -> pool] : k \in 0..n}

\* Every sub-list of a list, its order kept: the boxes a user can tick.
RECURSIVE SubLists(_)
SubLists(lst) ==
    IF lst = <<>> THEN {<<>>}
    ELSE LET rest == SubLists(Tail(lst)) IN
         rest \cup {<<Head(lst)>> \o x : x \in rest}

\* The files an upload stored, by name, in a folder that holds nothing else.
FileNames(pool) == {f.filename : f \in pool} \ {""}

NoFile == [header |-> <<>>, rows |-> <<>>]

EmptyFolder(pool) == [n \in FileNames(pool) \cup {PROCESSED_XLSX} |-> NoFile]

---------------------------------------------------------------------------
(* The handlers.                                                           *)

NO_FILE_PART == "No file part"
NO_VALID_HEADERS == "No valid headers found in uploaded file(s)."
NO_SELECTION == "Please select at least one header."

Runs == DOMAIN pc

\* The value="{{ header }}" of a checkbox as the form sends it back: str(h).
FormValue(h) == VStr(PyStr(h))

\* POST /upload
Upload(r, files) ==
    /\ pc[r] = "index"
    /\ LET res == UploadLoop(files, [fs |-> fs, combined_headers |-> <<>>,
                                     saved_paths |-> <<>>])
       IN  IF files = <<>>
           THEN /\ flashed' = [flashed EXCEPT ![r] = NO_FILE_PART]
                /\ pc' = [pc EXCEPT ![r] = "failed"]
                /\ UNCHANGED <<fs, page_headers, files_json, uploaded>>
           ELSE /\ fs' = res.fs
                /\ uploaded' = [uploaded EXCEPT ![r] = files]
                /\ IF res.combined_headers = <<>>
                   THEN /\ flashed' = [flashed EXCEPT ![r] = NO_VALID_HEADERS]
                        /\ pc' = [pc EXCEPT ![r] = "failed"]
                        /\ UNCHANGED <<page_headers, files_json>>
                   ELSE /\ pc' = [pc EXCEPT ![r] = "select"]
                        /\ page_headers' =
                               [page_headers EXCEPT ![r] = res.combined_headers]
                        /\ files_json' = [files_json EXCEPT ![r] = res.saved_paths]
                        /\ UNCHANGED flashed
    /\ UNCHANGED <<selected_headers, desired_filename, px, artifact, env,
                   tt_in, tt_out>>

\* POST /process up to the return of process_excel, which has saved the
\* workbook as processed.xlsx in the upload folder.
Process(r, selected, name) ==
    /\ pc[r] = "select"
    /\ IF selected = <<>>
       THEN /\ flashed' = [flashed EXCEPT ![r] = NO_SELECTION]
            /\ pc' = [pc EXCEPT ![r] = "failed"]
            /\ UNCHANGED <<fs, selected_headers, desired_filename, px>>
       ELSE LET title == IF name = <<>> THEN PROCESSED_FILE ELSE name
                res == process_excel(fs, files_json[r], selected, VStr(title))
            IN  /\ selected_headers' = [selected_headers EXCEPT ![r] = selected]
                /\ desired_filename' = [desired_filename EXCEPT ![r] = title]
                /\ px' = [px EXCEPT ![r] = res]
                /\ fs' = [fs EXCEPT ![PROCESSED_XLSX] = res.sheet]
                /\ pc' = [pc EXCEPT ![r] = "processed"]
                /\ UNCHANGED flashed
    /\ UNCHANGED <<page_headers, files_json, artifact, uploaded, env, tt_in, tt_out>>

\* The end of POST /process: send_file reads processed.xlsx back.
SendFile(r) ==
    /\ pc[r] = "processed"
    /\ artifact' = [artifact EXCEPT ![r] = fs[PROCESSED_XLSX]]
    /\ pc' = [pc EXCEPT ![r] = "done"]
    /\ UNCHANGED <<fs, page_headers, files_json, flashed, selected_headers,
                   desired_filename, px, uploaded, env, tt_in, tt_out>>

\* A call of transform_text.
TransformText ==
    /\ tt_out = VNone
    /\ tt_out' = VStr(transform_text(tt_in))
    /\ UNCHANGED <<runVars, tt_in>>

InitRuns(R, files, titles, n) ==
    /\ env = [files |-> files, titles |-> titles, max |-> n]
    /\ fs = EmptyFolder(files)
    /\ pc = [r \in R |-> "index"]
    /\ page_headers = [r \in R |-> <<>>]
    /\ files_json = [r \in R |-> <<>>]
    /\ flashed = [r \in R |-> ""]
    /\ selected_headers = [r \in R |-> <<>>]
    /\ desired_filename = [r \in R |-> <<>>]
    /\ px = [r \in R |-> <<>>]
    /\ artifact = [r \in R |-> NewSheet]
    /\ uploaded = [r \in R |-> <<>>]
    /\ tt_in = <<>>
    /\ tt_out = VNone

\* One run, with one user's files.
Init == InitRuns({1}, FilePool, TitlePool, MaxFiles)

\* Some run posts some list of its user's files.
UploadStep ==
    \E r \in Runs : \E files \in FileLists(env.files, env.max) : Upload(r, files)

\* Some run posts the selection form: any of the boxes ticked, any title.
ProcessStep ==
    \E r \in Runs :
        \E selected \in SubLists([i \in 1..Len(page_headers[r]) |->
                                     FormValue(page_headers[r][i])]) :
            \E name \in env.titles : Process(r, selected, name)

SendFileStep == \E r \in Runs : SendFile(r)

Next == UploadStep \/ ProcessStep \/ SendFileStep

Spec == Init /\ [][Next]_vars

\* Two runs of two users, interleaved request by request.
InitShared == InitRuns({1, 2}, SharedPool, TitlePool, 1)

SpecShared == InitShared /\ [][Next]_vars

\* transform_text on its own.
KeyTexts ==
    {BCOM_IN, Lower(BCOM_IN), Upper(BCOM_IN), BA_IN, Lower(BA_IN), Upper(BA_IN),
     S_ROLL, Lower(S_ROLL), Upper(S_ROLL), SubSeq(BCOM_IN, 1, 21), BCOM_OUT,
     BA_OUT, SNO_LABEL, PROCESSED_FILE}

TextAlphabet == {"n", "a", "N", "A", "c", "g", "p", " "}

TextInputs == KeyTexts \cup UNION {[1..k -> TextAlphabet] : k \in 0..MaxTextLen}

InitText ==
    /\ env = [files |-> {}, titles |-> {}, max |-> 0]
    /\ fs = EmptyFolder({})
    /\ pc = <<>> /\ page_headers = <<>> /\ files_json = <<>> /\ flashed = <<>>
    /\ selected_headers = <<>> /\ desired_filename = <<>> /\ px = <<>>
    /\ artifact = <<>> /\ uploaded = <<>>
    /\ tt_in \in TextInputs
    /\ tt_out = VNone

NextText == TransformText

SpecText == InitText /\ [][NextText]_vars

---------------------------------------------------------------------------
(* Properties.                                                             *)

\* The runs whose process_excel has returned.
Processed == {r \in Runs : pc[r] \in {"processed", "done"}}

\* The named files a run posted, in upload order.
NamedFiles(r) == SelectSeq(uploaded[r], LAMBDA f : f.filename # "")

\* Every non-empty header cell of the posted sources: sources in upload
\* order, each header row left to right.
RECURSIVE HeaderCells(_)
HeaderCells(files) ==
    IF files = <<>> THEN <<>>
    ELSE SelectSeq(Head(files).table.header, LAMBDA v : v # VNone)
         \o HeaderCells(Tail(files))

FirstIndex(lst, x) == CHOOSE i \in 1..Len(lst) :
    lst[i] = x /\ \A j \in 1..(i - 1) : lst[j] # x

\* A header whose trimmed, lower-cased name is an identity-column alias.
IsAlias(h) == IsStr(h) /\ Lower(Strip(h.s)) \in {SNO_ALIAS, SERIAL_ALIAS}

\* The folder as it would be had only run r uploaded to it.
OwnFolder(r) ==
    UploadLoop(uploaded[r], [fs |-> EmptyFolder(env.files),
                             combined_headers |-> <<>>,
                             saved_paths |-> <<>>]).fs

\* C1: after an upload of at least one file, the header list has no alias of
\* the identity column, no name twice, and exactly the surviving names in
\* first-seen order; if no name survives the run has failed with the
\* no-valid-headers message and no header list is handed on.
C1_HeaderUnification ==
    \A r \in Runs :
        (pc[r] # "index" /\ uploaded[r] # <<>>) =>
            LET flat == HeaderCells(NamedFiles(r))
                surviving == {h \in Range(flat) : ~IsAlias(h)}
                H == page_headers[r]
            IN  IF surviving = {}
                THEN pc[r] = "failed" /\ flashed[r] = NO_VALID_HEADERS /\ H = <<>>
                ELSE /\ flashed[r] # NO_VALID_HEADERS
                     /\ \A i \in 1..Len(H) : ~IsAlias(H[i])
                     /\ \A i, j \in 1..Len(H) : i # j => H[i] # H[j]
                     /\ Range(H) = surviving
                     /\ \A i, j \in 1..Len(H) :
                            i < j => FirstIndex(flat, H[i]) < FirstIndex(flat, H[j])

\* Two sources are unified: an alias is dropped, a repeated name is dropped
\* and a name only the second source has is appended.
C1_Witness ==
    \E r \in Runs :
        /\ pc[r] = "select"
        /\ Len(NamedFiles(r)) = 2
        /\ \E h \in Range(HeaderCells(NamedFiles(r))) : IsAlias(h)
        /\ Len(page_headers[r]) > Len(SheetHeaders(NamedFiles(r)[1].table))
        /\ Cardinality(Range(HeaderCells(NamedFiles(r))))
               < Len(HeaderCells(NamedFiles(r)))

\* C2: every merged row has exactly the columns of the header list, and
\* holds None in every column its own source's header row does not contain.
C2_ColumnFidelity ==
    \A r \in Processed :
        \A k \in 1..Len(px[r].merged) :
            LET row == px[r].merged[k]
                source == OwnFolder(r)[files_json[r][row.src]]
            IN  /\ DOMAIN row.d = Range(selected_headers[r])
                /\ \A header \in Range(selected_headers[r]) :
                       header \notin Range(source.header) => row.d[header] = VNone

\* A row of a source that lacks a selected column, while that source holds
\* a value at the column's position in the header list.
C2_Witness ==
    \E r \in Processed :
        \E k \in 1..Len(px[r].merged) :
            LET row == px[r].merged[k]
                source == OwnFolder(r)[files_json[r][row.src]]
            IN  \E j \in 1..Len(selected_headers[r]) :
                    /\ selected_headers[r][j] \notin Range(source.header)
                    /\ j <= Len(source.rows[row.idx])
                    /\ source.rows[row.idx][j] # VNone
                    /\ Len(files_json[r]) = 2

\* The name value of a row as the claim compares it: None is the empty
\* string, any other value its string, lower-cased.
ClaimedNameKey(row, name_header) ==
    LET v == row.d[name_header] IN
    IF v = VNone THEN <<>> ELSE Lower(PyStr(v))

\* Row a comes before row b in the order before the sort: source order, then
\* row order within a source.
CameBefore(a, b) == a.src < b.src \/ (a.src = b.src /\ a.idx < b.idx)

\* C3: with a name column, the rows are in non-decreasing order of the name
\* value compared case-insensitively, None as the empty string, and rows
\* with equal name values keep their order from before the sort.
C3_SortedAndStable ==
    \A r \in Processed :
        (\E i \in 1..Len(selected_headers[r]) : IsNameHeader(selected_headers[r][i])) =>
            LET rows == px[r].combined_data
                nh == NameHeader(selected_headers[r])
            IN  \A i, j \in 1..Len(rows) :
                    i < j =>
                        /\ ~StrLess(ClaimedNameKey(rows[j], nh),
                                    ClaimedNameKey(rows[i], nh))
                        /\ ClaimedNameKey(rows[i], nh) = ClaimedNameKey(rows[j], nh)
                               => CameBefore(rows[i], rows[j])

\* The finished sheet of a run and its shape: the header row is sheet row 3,
\* data row k is sheet row k + 3, the serial column is sheet column 2 and
\* header j is sheet column j + 2.
Sheet(r) == px[r].sheet
RowCount(r) == Len(px[r].combined_data)
ColCount(r) == Len(selected_headers[r])

\* C4: the serial column of the finished sheet reads 1 .. N down the data
\* rows, and the row that carries serial k is the k-th row of the sorted
\* order.
C4_SerialContiguity ==
    \A r \in Processed :
        /\ px[r].used_last_row = RowCount(r) + 4
        /\ \A k \in 1..RowCount(r) :
               /\ CellValue(Sheet(r), k + 3, 2) = VInt(k)
               /\ \A j \in 1..ColCount(r) :
                      CellValue(Sheet(r), k + 3, j + 2)
                          = px[r].combined_data[k].d[selected_headers[r][j]]

\* The sort moved rows, and a source brought its own serial column.
C4_Witness ==
    \E r \in Processed :
        /\ RowCount(r) >= 3
        /\ px[r].combined_data # px[r].transformed
        /\ \E i \in 1..Len(NamedFiles(r)) :
               \E h \in Range(NamedFiles(r)[i].table.header) : IsAlias(h)
        /\ CellValue(Sheet(r), RowCount(r) + 3, 2) = VInt(RowCount(r))

\* The substitution tables: the four rows of the code, and the five rows of
\* the specification.
ROLL_OUT == <<"R", "o", "l", "l", ".", " ", "N", "o", ".">>

Table4 ==
    {<<BCOM_IN, BCOM_OUT>>, <<BA_IN, BA_OUT>>, <<CGPA_IN, CGPA_OUT>>, <<NA_IN, NA_OUT>>}

Table5 == Table4 \cup {<<S_ROLL, ROLL_OUT>>}

LookUp(table, t) ==
    IF \E p \in table : p[1] = t THEN (CHOOSE p \in table : p[1] = t)[2] ELSE t

\* C5 as stated: the result is the title-cased input looked up in the table
\* of five rows, "Roll No" giving "Roll. No.".
C5_FiveRowTable ==
    tt_out # VNone => tt_out = VStr(LookUp(Table5, Title(tt_in)))

\* C5 as amended: the result is the title-cased input looked up in the table
\* of four rows; "Roll No" is not in it and comes back title-cased.
C5_FourRowTable ==
    tt_out # VNone =>
        /\ tt_out = VStr(LookUp(Table4, Title(tt_in)))
        /\ tt_in = <<"c", "g", "p", "a">> => tt_out = VStr(CGPA_OUT)
        /\ tt_in = <<"n", "A">> => tt_out = VStr(NA_OUT)
        /\ tt_in = Lower(BCOM_IN) => tt_out = VStr(BCOM_OUT)
        /\ tt_in = Upper(BA_IN) => tt_out = VStr(BA_OUT)
        /\ tt_in = <<"a", " ", "n", "a">> => tt_out = VStr(<<"A", " ", "N", "a">>)
        /\ tt_in = Lower(S_ROLL) => tt_out = VStr(S_ROLL)

\* transform_text has returned for an input that title-cases to "Roll No".
C5_Witness ==
    /\ tt_out # VNone
    /\ tt_in # S_ROLL
    /\ Title(tt_in) = S_ROLL

\* C6: the header row of the finished sheet is the serial label, then every
\* selected header passed through transform_text.
C6_HeaderRowNormalized ==
    \A r \in Processed :
        /\ CellValue(Sheet(r), 3, 2) = VStr(SNO_LABEL)
        /\ \A j \in 1..ColCount(r) :
               CellValue(Sheet(r), 3, j + 2)
                   = VStr(transform_text(selected_headers[r][j].s))

\* C7: the one merged range is the title row from the serial column to the
\* last data column, len(header list) + 1 columns wide, the margin columns
\* 1 and len(header list) + 3 outside it.
C7_TitleMergeWidth ==
    \A r \in Processed :
        LET n == ColCount(r) IN
        /\ Sheet(r).merged = {[r1 |-> 2, c1 |-> 2, r2 |-> 2, c2 |-> n + 2]}
        /\ CellValue(Sheet(r), 3, 2) = VStr(SNO_LABEL)
        /\ CellValue(Sheet(r), 3, n + 2) = selected_headers[r][n]
        /\ \A m \in Sheet(r).merged :
               /\ m.c2 - m.c1 + 1 = n + 1
               /\ m.c1 > 1
               /\ m.c2 < n + 3
        /\ \A x \in 1..px[r].used_last_row :
               CellValue(Sheet(r), x, 1) = VNone /\ CellValue(Sheet(r), x, n + 3) = VNone
        /\ CellValue(Sheet(r), 2, 2) = VStr(desired_filename[r])

\* Two sources with data rows and at least two selected columns.
C7_Witness ==
    \E r \in Processed :
        /\ Len(files_json[r]) = 2
        /\ ColCount(r) >= 2
        /\ RowCount(r) >= 2
        /\ \E m \in Sheet(r).merged : m.c2 = ColCount(r) + 2

\* C8: the content send_file returns to a run is the sheet process_excel
\* builds from the files that run uploaded and the form that run posted.
C8_RunIsolation ==
    \A r \in Runs :
        pc[r] = "done" =>
            artifact[r] = process_excel(OwnFolder(r), files_json[r],
                                        selected_headers[r],
                                        VStr(desired_filename[r])).sheet

\* The rendered length of a cell: nothing for an empty cell.
RenderedLen(v) == IF v = VNone THEN 0 ELSE Len(PyStr(v))

\* The header cell and the data cells of data column c (2 is the serial
\* column) of run r, from the sorted rows.
ColumnValues(r, c) ==
    IF c = 2
    THEN {VStr(SNO_LABEL)} \cup {VInt(k) : k \in 1..RowCount(r)}
    ELSE {selected_headers[r][c - 2]}
         \cup {px[r].combined_data[k].d[selected_headers[r][c - 2]] :
                 k \in 1..RowCount(r)}

\* C9: every data column is as wide as the padding plus the longest rendered
\* value among its header cell and its data cells.
C9_AutoFitWidth ==
    \A r \in Processed :
        \A c \in 2..(ColCount(r) + 2) :
            Sheet(r).widths[c]
                = PADDING + SetMax({RenderedLen(v) : v \in ColumnValues(r, c)})

\* C10 as stated: the rightmost data column is wider than its longest
\* rendered value by more than the padding.
C10_ExtraPadding ==
    \A r \in Processed :
        LET c == ColCount(r) + 2 IN
        Sheet(r).widths[c] - SetMax({RenderedLen(v) : v \in ColumnValues(r, c)})
            > PADDING

\* C10 as amended: the rightmost data column is wider than the longest
\* rendered value of its counted (truthy) cells by exactly the padding, as
\* every other header-list column is.
C10_SamePadding ==
    \A r \in Processed :
        \A c \in 3..(ColCount(r) + 2) :
            Sheet(r).widths[c]
                = PADDING + SetMax({0} \cup {Len(PyStr(v)) :
                                      v \in {x \in ColumnValues(r, c) : Truthy(x)}})

\* The rightmost of several data columns is fitted to a data cell longer
\* than its header.
C10_Witness ==
    \E r \in Processed :
        LET c == ColCount(r) + 2 IN
        /\ ColCount(r) >= 2
        /\ RowCount(r) >= 1
        /\ Sheet(r).widths[c] > PADDING + Len(selected_headers[r][c - 2].s)

=============================================================================
